---------------------------- MODULE Spec2Model ----------------------------
(***************************************************************************)
(* Model of plugins/locker.py: the etcd-backed resource locker             *)
(* (EtcdLocker, Locker, the keep-alive thread) and the SRV discovery /     *)
(* connect helpers (query_etcd_server, connect_to_etcd).                   *)
(*                                                                         *)
(* Time is discrete; one tick is the 0.5 s of the wait loop's sleep.       *)
(* Computation steps take no time: Tick is enabled only when every         *)
(* foreground call is idle or asleep and every keep-alive thread is        *)
(* blocked in Event.wait.  The etcd server is modelled at its interface:   *)
(* read / create-if-absent / refresh / delete on one key are atomic, and a *)
(* record disappears when its TTL runs out.                                *)
(* An outcome is named after the exception class of the raise site.        *)
(***************************************************************************)
EXTENDS Integers, Sequences, FiniteSets, TLC

\* ---------------------------------------------------------------- bounds
\* Locker.ttl in seconds (30 in the source); scaled down so that the
\* timers stay small.  Every timing below is derived from it.
TTL == 2

\* the longest SRV answer section of a discovery run
MaxAnswers == 3

\* ------------------------------------------------------ program constants
\* time.sleep(0.5): one tick is half a second
TicksPerSec == 2
\* "msg.ttl + 1": the grace second added to the record's ttl
Grace == 1

Procs == {"p1", "p2"}
Names == {<<"a">>, <<"b">>}
NoUser == "None"
NoTimeout == -1

\* ------------------------------------------------------------- variables
VARIABLES
    store,      \* etcd: key -> [value, exp (ticks left), creator (ghost)]
    locks,      \* EtcdLocker.locks per process: key -> lockid
    stop,       \* Locker._stop (threading.Event) per process
    kt,         \* Locker._thread: "none" | "wait" | "woke" | "cycle" | "dead"
    ktimer,     \* ticks left of the thread's _stop.wait(ttl // 2)
    ksnap,      \* keys of list(locks.items()) the cycle still has to refresh
    pc,         \* position of the foreground call of each process
    key,        \* the key the foreground call works on
    msg,        \* lock(): the last etcd read
    timeout,    \* lock(): the wait deadline, in ticks
    elapsed,    \* lock(): time.time() - start, in ticks
    user,       \* lock(): the user argument
    raAll,      \* release_all(): list(self.locker.locks), kept until Resume
    raLeft,     \* release_all(): keys the loop has not yet released
    res,        \* outcome of the call that has just ended (pc = "done")
    rfail,      \* ghost: a refresh of this process has failed
    live,       \* ghost: keep-alive threads started and not yet ended
    dns,        \* what resolver.query answers for the SRV name
    qpc,        \* query_etcd_server: "idle" | "call" | "done"
    qres,       \* query_etcd_server: what it returned or raised
    down,       \* the hosts for which etcd.Client(host=...) raises
    cpc,        \* connect_to_etcd: "idle" | "call" | "loop" | "done"
    crecs,      \* connect_to_etcd: the records the for loop has left
    cerr,       \* connect_to_etcd: err
    cres        \* connect_to_etcd: what it returned or raised

lockVars == <<store, locks, stop, kt, ktimer, ksnap, pc, key, msg, timeout,
              elapsed, user, raAll, raLeft, res, rfail, live>>

netVars == <<dns, qpc, qres, down, cpc, crecs, cerr, cres>>

vars == <<lockVars, netVars>>

\* --------------------------------------------------------------- helpers
\* posixpath.join('lab', 'locks', name) for a relative name
MakeKey(name) == <<"lab", "locks">> \o name

Keys == {MakeKey(n) : n \in Names}

EnvUser(p) == "anonymous"
Fqdn(p) == IF p = "p1" THEN "host1" ELSE "host2"

\* '@'.join((user or os.environ.get("USER", "anonymous"), socket.getfqdn()))
GetLockId(p, u) == <<IF u = NoUser THEN EnvUser(p) ELSE u, "@", Fqdn(p)>>

NoId == <<>>
NoKey == <<>>
NoMsg == [found |-> FALSE, value |-> NoId, ttl |-> 0]
NoRes == [op |-> "none", kind |-> "none", key |-> NoKey, holder |-> NoId]

\* self.ttl as the store counts it, and the keep-alive period self.ttl // 2
TTLTicks == TTL * TicksPerSec
PeriodTicks == (TTL \div 2) * TicksPerSec

Remove(f, k) == [x \in DOMAIN f \ {k} |-> f[x]]
Put(f, k, v) == [x \in DOMAIN f \cup {k} |-> IF x = k THEN v ELSE f[x]]

\* the ttl field of an etcd result: whole seconds left, rounded up
TtlSeconds(exp) == (exp + TicksPerSec - 1) \div TicksPerSec

\* EtcdLocker.read: the record, or None on EtcdKeyNotFound
Read(k) ==
    IF k \in DOMAIN store
    THEN [found |-> TRUE, value |-> store[k].value, ttl |-> TtlSeconds(store[k].exp)]
    ELSE NoMsg

\* mutant: the create has lost its condition and overwrites a present key
CreatedUnconditional(p, k, id) ==
    Put(store, k, [value |-> id, exp |-> TTLTicks, creator |-> p])

\* etcd.write(key, lockid, self.ttl, prevExists=False): the store afterwards
\* (a present key is left as it is), and what the call raises
Created(p, k, id) ==
    IF k \in DOMAIN store THEN store
    ELSE Put(store, k, [value |-> id, exp |-> TTLTicks, creator |-> p])
CreateRaises(k) == IF k \in DOMAIN store THEN "EtcdAlreadyExist" ELSE "nothing"

\* etcd.write(key, lockid, refresh=True) on a present key: the TTL starts anew
Refreshed(k) == [store EXCEPT ![k].exp = TTLTicks]

\* mutant: the delete is not sent
DeletedNothing(k) == store

\* etcd.delete(key): the store afterwards, and what the call raises
Deleted(k) == IF k \in DOMAIN store THEN Remove(store, k) ELSE store
DeleteRaises(k) == IF k \in DOMAIN store THEN "nothing" ELSE "EtcdKeyNotFound"

\* mutant: the exception of the delete is not caught
SwallowedNothing(exc) == FALSE

\* lines 111-112: except etcd.EtcdKeyNotFound: pass
Swallowed(exc) == exc = "EtcdKeyNotFound"

\* what lock() keeps of a read once the deadline is fixed: msg.value
Seen(m) == [m EXCEPT !.ttl = 0]

Result(o, kd, k, h) == [op |-> o, kind |-> kd, key |-> k, holder |-> h]

\* mutant: the registry is asked for the bare name, not the key
HeldByName(p, k) == SubSeq(k, 3, Len(k)) \in DOMAIN locks[p]

\* line 141: "if key in self.locker.locks"
Held(p, k) == k \in DOMAIN locks[p]

\* mutant: the grace second is forgotten
DeadlineNoGrace(to, m) == IF to # NoTimeout THEN to ELSE m.ttl * TicksPerSec

\* line 150: timeout if timeout is not None else msg.ttl + 1   (in ticks)
Deadline(to, m) == IF to # NoTimeout THEN to ELSE (m.ttl + Grace) * TicksPerSec

\* line 104: key = self._makekey(name) if name not in self.locks else name
ReleaseKey(p, arg) == IF arg \notin DOMAIN locks[p] THEN MakeKey(arg) ELSE arg

\* the call ends with outcome r (a return or a raise); its locals are dead
Return(p, r) ==
    /\ pc' = [pc EXCEPT ![p] = "done"]
    /\ res' = [res EXCEPT ![p] = r]
    /\ key' = [key EXCEPT ![p] = NoKey]
    /\ msg' = [msg EXCEPT ![p] = NoMsg]
    /\ timeout' = [timeout EXCEPT ![p] = NoTimeout]
    /\ elapsed' = [elapsed EXCEPT ![p] = 0]
    /\ user' = [user EXCEPT ![p] = NoUser]

\* ------------------------------------------------------------ Locker.lock
\* lines 134-144: the call, the key, the re-entry check
LockCall(p, name, u, to) ==
    /\ pc[p] = "idle"
    /\ LET k == MakeKey(name) IN
       IF Held(p, k)
       THEN /\ Return(p, Result("lock", "TooManyLocks", k, NoId))
            /\ UNCHANGED <<store, locks, stop, kt, ktimer, ksnap, raAll, raLeft,
                           rfail, live>>
       ELSE /\ pc' = [pc EXCEPT ![p] = "l_read"]
            /\ key' = [key EXCEPT ![p] = k]
            /\ user' = [user EXCEPT ![p] = u]
            /\ timeout' = [timeout EXCEPT ![p] = to]
            /\ UNCHANGED <<store, locks, stop, kt, ktimer, ksnap, msg, elapsed,
                           raAll, raLeft, res, rfail, live>>
    /\ UNCHANGED netVars

\* lines 147-153: the first read; a record found fixes the deadline
LockRead(p) ==
    /\ pc[p] = "l_read"
    /\ LET m == Read(key[p]) IN
       /\ msg' = [msg EXCEPT ![p] = Seen(m)]
       /\ IF m.found
          THEN /\ timeout' = [timeout EXCEPT ![p] = Deadline(timeout[p], m)]
               /\ pc' = [pc EXCEPT ![p] = "l_loop"]
          ELSE /\ pc' = [pc EXCEPT ![p] = "l_create"]
               /\ UNCHANGED timeout
    /\ elapsed' = [elapsed EXCEPT ![p] = 0]
    /\ UNCHANGED <<store, locks, stop, kt, ktimer, ksnap, key, user, raAll, raLeft,
                   res, rfail, live>>
    /\ UNCHANGED netVars

\* lines 154-162: one turn of the wait loop, or the deadline
LockLoop(p) ==
    /\ pc[p] = "l_loop"
    /\ IF elapsed[p] < timeout[p]
       THEN LET m == Read(key[p]) IN
            /\ msg' = [msg EXCEPT ![p] = Seen(m)]
            /\ pc' = [pc EXCEPT ![p] = IF m.found THEN "l_sleep" ELSE "l_create"]
            /\ UNCHANGED <<key, timeout, elapsed, user, res>>
       ELSE Return(p, Result("lock", "ResourceLocked", key[p], msg[p].value))
    /\ UNCHANGED <<store, locks, stop, kt, ktimer, ksnap, raAll, raLeft, rfail,
                   live>>
    /\ UNCHANGED netVars

\* lines 165-168: write(key, lockid, self.ttl, prevExists=False); the
\* EtcdAlreadyExist of a present key is not caught
LockCreate(p) ==
    /\ pc[p] = "l_create"
    /\ store' = Created(p, key[p], GetLockId(p, user[p]))
    /\ IF CreateRaises(key[p]) # "nothing"
       THEN Return(p, Result("lock", CreateRaises(key[p]), key[p], NoId))
       ELSE /\ pc' = [pc EXCEPT ![p] = "l_start"]
            /\ UNCHANGED <<key, msg, timeout, elapsed, user, res>>
    /\ UNCHANGED <<locks, stop, kt, ktimer, ksnap, raAll, raLeft, rfail, live>>
    /\ UNCHANGED netVars

\* mutant: the thread is started without asking whether one is alive
NoThreadUnasked(p) == TRUE

\* line 171: not self._thread or not self._thread.is_alive()
NoThread(p) == kt[p] \in {"none", "dead"}

\* lines 170-176: start the keep-alive thread if none is alive, register
LockFinish(p) ==
    /\ pc[p] = "l_start"
    /\ IF NoThread(p)
       THEN /\ kt' = [kt EXCEPT ![p] = "wait"]
            /\ ktimer' = [ktimer EXCEPT ![p] = PeriodTicks]
            /\ live' = [live EXCEPT ![p] = @ + 1]
       ELSE UNCHANGED <<kt, ktimer, live>>
    /\ locks' = [locks EXCEPT ![p] = Put(@, key[p], GetLockId(p, user[p]))]
    /\ Return(p, Result("lock", "ok", key[p], GetLockId(p, user[p])))
    /\ UNCHANGED <<store, stop, ksnap, raAll, raLeft, rfail>>
    /\ UNCHANGED netVars

\* ---------------------------------------------------- EtcdLocker.release
\* lines 103-107: pop the entry; only an owned lock goes on to the delete
Release(p, arg) ==
    /\ pc[p] = "idle"
    /\ LET k == ReleaseKey(p, arg) IN
       IF k \in DOMAIN locks[p]
       THEN /\ locks' = [locks EXCEPT ![p] = Remove(@, k)]
            /\ pc' = [pc EXCEPT ![p] = "r_delete"]
            /\ key' = [key EXCEPT ![p] = k]
            /\ UNCHANGED <<msg, timeout, elapsed, user, res>>
       ELSE /\ Return(p, Result("release", "noop", k, NoId))
            /\ UNCHANGED locks
    /\ UNCHANGED <<store, stop, kt, ktimer, ksnap, raAll, raLeft, rfail, live>>
    /\ UNCHANGED netVars

\* lines 108-112: the delete of release(); inside release_all the loop goes on
ReleaseDelete(p) ==
    /\ pc[p] = "r_delete"
    /\ store' = Deleted(key[p])
    /\ LET exc == DeleteRaises(key[p])
           op == IF raAll[p] # {} THEN "release_all" ELSE "release" IN
       IF exc # "nothing" /\ ~Swallowed(exc)
       THEN Return(p, Result(op, exc, key[p], NoId))
       ELSE IF raLeft[p] # {}
       THEN /\ pc' = [pc EXCEPT ![p] = "ra_loop"]
            /\ key' = [key EXCEPT ![p] = NoKey]
            /\ UNCHANGED <<msg, timeout, elapsed, user, res>>
       ELSE Return(p, Result(op, "ok", key[p], NoId))
    /\ UNCHANGED <<locks, stop, kt, ktimer, ksnap, raAll, raLeft, rfail, live>>
    /\ UNCHANGED netVars

\* ------------------------------------------------------ Locker.release_all
\* lines 178-180: set the stop event, snapshot the registry's keys
ReleaseAll(p) ==
    /\ pc[p] = "idle"
    /\ stop' = [stop EXCEPT ![p] = TRUE]
    /\ IF DOMAIN locks[p] = {}
       THEN /\ Return(p, Result("release_all", "ok", NoKey, NoId))
            /\ UNCHANGED <<raAll, raLeft>>
       ELSE /\ raAll' = [raAll EXCEPT ![p] = DOMAIN locks[p]]
            /\ raLeft' = [raLeft EXCEPT ![p] = DOMAIN locks[p]]
            /\ pc' = [pc EXCEPT ![p] = "ra_loop"]
            /\ UNCHANGED <<key, msg, timeout, elapsed, user, res>>
    /\ UNCHANGED <<store, locks, kt, ktimer, ksnap, rfail, live>>
    /\ UNCHANGED netVars

\* lines 180-181 with 104-107: self.locker.release(key) for the next key
ReleaseAllNext(p) ==
    /\ pc[p] = "ra_loop"
    /\ \E a \in raLeft[p] :
         LET k == ReleaseKey(p, a) IN
         /\ raLeft' = [raLeft EXCEPT ![p] = @ \ {a}]
         /\ locks' = [locks EXCEPT ![p] = Remove(@, k)]
         /\ pc' = [pc EXCEPT ![p] = "r_delete"]
         /\ key' = [key EXCEPT ![p] = k]
    /\ UNCHANGED <<store, stop, kt, ktimer, ksnap, msg, timeout, elapsed, user,
                   raAll, res, rfail, live>>
    /\ UNCHANGED netVars

\* -------------------------------------------------------- Locker._keepalive
\* line 185: _stop.wait(self.ttl // 2) returns: the event is set (the thread
\* ends) or the period is over
KeepaliveWait(p) ==
    /\ kt[p] = "wait"
    /\ IF stop[p]
       THEN /\ kt' = [kt EXCEPT ![p] = "dead"]
            /\ live' = [live EXCEPT ![p] = @ - 1]
       ELSE /\ ktimer[p] = 0
            /\ kt' = [kt EXCEPT ![p] = "woke"]
            /\ UNCHANGED live
    /\ UNCHANGED <<store, locks, stop, ktimer, ksnap, pc, key, msg, timeout, elapsed,
                   user, raAll, raLeft, res, rfail>>
    /\ UNCHANGED netVars

\* line 186: list(self.locker.locks.items()); an empty list ends the cycle
KeepaliveSnapshot(p) ==
    /\ kt[p] = "woke"
    /\ IF DOMAIN locks[p] = {}
       THEN /\ kt' = [kt EXCEPT ![p] = "wait"]
            /\ ktimer' = [ktimer EXCEPT ![p] = PeriodTicks]
            /\ UNCHANGED ksnap
       ELSE /\ kt' = [kt EXCEPT ![p] = "cycle"]
            /\ ksnap' = [ksnap EXCEPT ![p] = DOMAIN locks[p]]
            /\ UNCHANGED ktimer
    /\ UNCHANGED <<store, locks, stop, pc, key, msg, timeout, elapsed, user, raAll,
                   raLeft, res, rfail, live>>
    /\ UNCHANGED netVars

\* line 189: write(key, lockid, refresh=True) for the next key of the
\* snapshot; the EtcdKeyNotFound of a vanished key ends the thread
KeepaliveRefresh(p) ==
    /\ kt[p] = "cycle"
    /\ \E k \in ksnap[p] :
         IF k \in DOMAIN store
         THEN /\ store' = Refreshed(k)
              /\ ksnap' = [ksnap EXCEPT ![p] = @ \ {k}]
              /\ IF ksnap[p] = {k}
                 THEN /\ kt' = [kt EXCEPT ![p] = "wait"]
                      /\ ktimer' = [ktimer EXCEPT ![p] = PeriodTicks]
                 ELSE UNCHANGED <<kt, ktimer>>
              /\ UNCHANGED <<rfail, live>>
         ELSE /\ kt' = [kt EXCEPT ![p] = "dead"]
              /\ ksnap' = [ksnap EXCEPT ![p] = {}]
              /\ rfail' = [rfail EXCEPT ![p] = TRUE]
              /\ live' = [live EXCEPT ![p] = @ - 1]
              /\ UNCHANGED <<store, ktimer>>
    /\ UNCHANGED <<locks, stop, pc, key, msg, timeout, elapsed, user, raAll, raLeft,
                   res>>
    /\ UNCHANGED netVars

\* the caller has the outcome and may call again
Resume(p) ==
    /\ pc[p] = "done"
    /\ pc' = [pc EXCEPT ![p] = "idle"]
    /\ res' = [res EXCEPT ![p] = NoRes]
    /\ raAll' = [raAll EXCEPT ![p] = {}]
    /\ raLeft' = [raLeft EXCEPT ![p] = {}]
    /\ UNCHANGED <<store, locks, stop, kt, ktimer, ksnap, key, msg, timeout, elapsed,
                   user, rfail, live>>
    /\ UNCHANGED netVars

\* ---------------------------------------------------------------- time
\* a thread blocked in _stop.wait with time left, or no running thread
Blocked(p) == \/ kt[p] \in {"none", "dead"}
              \/ kt[p] = "wait" /\ ktimer[p] > 0 /\ ~stop[p]

\* half a second passes: the store ages its records and drops the expired
\* ones, the waits and the sleep of line 158 run down
Tick ==
    /\ \A p \in Procs : pc[p] \in {"idle", "l_sleep"} /\ Blocked(p)
    /\ store' = [k \in {x \in DOMAIN store : store[x].exp > 1} |->
                    [store[k] EXCEPT !.exp = @ - 1]]
    /\ ktimer' = [p \in Procs |-> IF kt[p] = "wait" THEN ktimer[p] - 1 ELSE ktimer[p]]
    /\ elapsed' = [p \in Procs |-> IF pc[p] = "l_sleep" THEN elapsed[p] + 1
                                   ELSE elapsed[p]]
    /\ pc' = [p \in Procs |-> IF pc[p] = "l_sleep" THEN "l_loop" ELSE pc[p]]
    /\ UNCHANGED <<locks, stop, kt, ksnap, key, msg, timeout, user, raAll, raLeft,
                   res, rfail, live>>
    /\ UNCHANGED netVars

\* ------------------------------------------------------- SRV discovery
\* A string is the sequence of its code points: "a" is <<97>>, "." is 46,
\* "1" is 49; Python orders strings by code point, a proper prefix first.
RECURSIVE StrLess(_, _)
StrLess(a, b) ==
    IF b = << >> THEN FALSE
    ELSE IF a = << >> THEN TRUE
    ELSE IF Head(a) # Head(b) THEN Head(a) < Head(b)
    ELSE StrLess(Tail(a), Tail(b))

\* str.rstrip('.')
RECURSIVE RStripDot(_)
RStripDot(t) ==
    IF t # << >> /\ t[Len(t)] = 46 THEN RStripDot(SubSeq(t, 1, Len(t) - 1)) ELSE t

\* line 13: SRV = namedtuple('SRV', ['host', 'port', 'priority', 'weight'])
SRV(h, pt, pr, w) == [host |-> h, port |-> pt, priority |-> pr, weight |-> w]

\* lines 38-40: the addresses of the A records of one additional resource
RECURSIVE AAddresses(_)
AAddresses(items) ==
    IF items = << >> THEN << >>
    ELSE (IF Head(items).rdtype = "A" THEN <<Head(items).address>> ELSE << >>)
         \o AAddresses(Tail(items))

\* lines 35-41: _build_resource_to_address_map
RECURSIVE AddressesOf(_, _)
AddressesOf(additional, name) ==
    IF additional = << >> THEN << >>
    ELSE (IF Head(additional).name = name THEN AAddresses(Head(additional).items)
          ELSE << >>)
         \o AddressesOf(Tail(additional), name)

BuildResourceToAddressMap(additional) ==
    [name \in {additional[i].name : i \in DOMAIN additional} |->
        AddressesOf(additional, name)]

\* lines 44-57: _build_result_set
RECURSIVE BuildResultSet(_, _)
BuildResultSet(answer, resourceMap) ==
    IF answer = << >> THEN << >>
    ELSE LET r == Head(answer) IN
         (IF r.target \in DOMAIN resourceMap
          THEN [i \in DOMAIN resourceMap[r.target] |->
                   SRV(resourceMap[r.target][i], r.port, r.priority, r.weight)]
          ELSE <<SRV(RStripDot(r.target), r.port, r.priority, r.weight)>>)
         \o BuildResultSet(Tail(answer), resourceMap)

\* mutant: the weight is not negated
SortKeyWeightAscending(r) == <<r.priority, r.weight, r.host>>

\* line 73: key=lambda r: (r.priority, -r.weight, r.host)
SortKey(r) == <<r.priority, 0 - r.weight, r.host>>

\* Python's order of two such key tuples
KeyLess(k1, k2) ==
    \/ k1[1] < k2[1]
    \/ k1[1] = k2[1] /\ k1[2] < k2[2]
    \/ k1[1] = k2[1] /\ k1[2] = k2[2] /\ StrLess(k1[3], k2[3])

\* line 73: sorted(results, key=...), which is stable
RECURSIVE InsertSorted(_, _)
InsertSorted(sorted, r) ==
    IF sorted = << >> THEN <<r>>
    ELSE IF KeyLess(SortKey(r), SortKey(Head(sorted))) THEN <<r>> \o sorted
    ELSE <<Head(sorted)>> \o InsertSorted(Tail(sorted), r)

RECURSIVE Sorted(_)
Sorted(results) ==
    IF results = << >> THEN << >>
    ELSE InsertSorted(Sorted(SubSeq(results, 1, Len(results) - 1)),
                      results[Len(results)])

\* lines 65-69: the resolver exceptions that become SRVQueryFailure
CaughtDnsErrors == {"NoAnswer", "NoNameservers", "NotAbsolute", "NoRootSOA", "NXDOMAIN"}

NoQuery == [exc |-> "none", arg |-> "none", recs |-> << >>]

\* lines 60-73: query_etcd_server
QueryEtcdServer(d) ==
    IF d.error \in CaughtDnsErrors
    THEN [exc |-> "SRVQueryFailure", arg |-> d.error, recs |-> << >>]
    ELSE IF d.error # "none"
    THEN [exc |-> d.error, arg |-> "none", recs |-> << >>]
    ELSE [exc |-> "none", arg |-> "none",
          recs |-> Sorted(BuildResultSet(d.answer,
                                         BuildResourceToAddressMap(d.additional)))]

Query ==
    /\ qpc = "call"
    /\ qres' = QueryEtcdServer(dns)
    /\ qpc' = "done"
    /\ UNCHANGED <<dns, down, cpc, crecs, cerr, cres>>
    /\ UNCHANGED lockVars

\* ---------------------------------------------------------- connect_to_etcd
NoErr == [cls |-> "none", host |-> << >>]
\* what etcd.Client(host=h, port=2379) raises for a host that is down
ClientError(h) == [cls |-> "EtcdException", host |-> h]
NoConn == [kind |-> "none", host |-> << >>, exc |-> NoErr]

\* lines 77-78: err = None; the discovery, whose exception is not caught
ConnectQuery ==
    /\ cpc = "call"
    /\ LET q == QueryEtcdServer(dns) IN
       IF q.exc # "none"
       THEN /\ cres' = [kind |-> "raise", host |-> << >>,
                        exc |-> [cls |-> q.exc, host |-> << >>]]
            /\ cpc' = "done"
            /\ UNCHANGED crecs
       ELSE /\ crecs' = q.recs
            /\ cpc' = "loop"
            /\ UNCHANGED cres
    /\ cerr' = NoErr
    /\ UNCHANGED <<dns, qpc, qres, down>>
    /\ UNCHANGED lockVars

\* lines 78-86: one turn of the for loop, or what follows the loop
ConnectTry ==
    /\ cpc = "loop"
    /\ IF crecs = << >>
       THEN /\ cres' = [kind |-> "raise", host |-> << >>,
                        exc |-> IF cerr # NoErr THEN cerr
                                ELSE [cls |-> "RuntimeError", host |-> << >>]]
            /\ cpc' = "done"
            /\ UNCHANGED <<crecs, cerr>>
       ELSE IF Head(crecs).host \in down
       THEN /\ cerr' = ClientError(Head(crecs).host)
            /\ crecs' = Tail(crecs)
            /\ UNCHANGED <<cpc, cres>>
       ELSE /\ cres' = [kind |-> "client", host |-> Head(crecs).host, exc |-> NoErr]
            /\ cpc' = "done"
            /\ crecs' = Tail(crecs)
            /\ UNCHANGED cerr
    /\ UNCHANGED <<dns, qpc, qres, down>>
    /\ UNCHANGED lockVars

\* ------------------------------------------------------- specifications
NoDns == [error |-> "none", answer |-> << >>, additional |-> << >>]

NetIdle ==
    /\ dns = NoDns
    /\ qpc = "idle"
    /\ qres = NoQuery
    /\ down = {}
    /\ cpc = "idle"
    /\ crecs = << >>
    /\ cerr = NoErr
    /\ cres = NoConn

\* lines 89-92 and 125-132: the constructors
InitLock ==
    /\ store = << >>
    /\ locks = [p \in Procs |-> << >>]
    /\ stop = [p \in Procs |-> FALSE]
    /\ kt = [p \in Procs |-> "none"]
    /\ ktimer = [p \in Procs |-> 0]
    /\ ksnap = [p \in Procs |-> {}]
    /\ pc = [p \in Procs |-> "idle"]
    /\ key = [p \in Procs |-> NoKey]
    /\ msg = [p \in Procs |-> NoMsg]
    /\ timeout = [p \in Procs |-> NoTimeout]
    /\ elapsed = [p \in Procs |-> 0]
    /\ user = [p \in Procs |-> NoUser]
    /\ raAll = [p \in Procs |-> {}]
    /\ raLeft = [p \in Procs |-> {}]
    /\ res = [p \in Procs |-> NoRes]
    /\ rfail = [p \in Procs |-> FALSE]
    /\ live = [p \in Procs |-> 0]

Init == InitLock /\ NetIdle

Steps ==
    \/ \E p \in Procs : LockRead(p)
    \/ \E p \in Procs : LockLoop(p)
    \/ \E p \in Procs : LockCreate(p)
    \/ \E p \in Procs : LockFinish(p)
    \/ \E p \in Procs : Resume(p)
    \/ \E p \in Procs : KeepaliveWait(p)
    \/ \E p \in Procs : KeepaliveSnapshot(p)
    \/ \E p \in Procs : KeepaliveRefresh(p)
    \/ Tick

ReleaseSteps ==
    \/ \E p \in Procs : ReleaseDelete(p)
    \/ \E p \in Procs : ReleaseAllNext(p)

KeyA == MakeKey(<<"a">>)

\* p1 uses the whole API on two resources, p2 contends for resource a
Next ==
    \/ \E n \in Names : LockCall("p1", n, NoUser, NoTimeout)
    \/ \E a \in Names \cup Keys : Release("p1", a)
    \/ ReleaseAll("p1")
    \/ LockCall("p2", <<"a">>, NoUser, NoTimeout)
    \/ ReleaseSteps
    \/ Steps

Spec == Init /\ [][Next]_vars

\* both processes use the whole API on one resource
NextPair ==
    \/ \E p \in Procs : LockCall(p, <<"a">>, NoUser, NoTimeout)
    \/ \E p \in Procs, a \in {<<"a">>, KeyA} : Release(p, a)
    \/ \E p \in Procs : ReleaseAll(p)
    \/ ReleaseSteps
    \/ Steps

SpecPair == Init /\ [][NextPair]_vars

\* both processes have just called lock("a") on a free resource, and make
\* no other call
InitRace ==
    /\ NetIdle
    /\ store = << >>
    /\ locks = [p \in Procs |-> << >>]
    /\ stop = [p \in Procs |-> FALSE]
    /\ kt = [p \in Procs |-> "none"]
    /\ ktimer = [p \in Procs |-> 0]
    /\ ksnap = [p \in Procs |-> {}]
    /\ pc = [p \in Procs |-> "l_read"]
    /\ key = [p \in Procs |-> KeyA]
    /\ msg = [p \in Procs |-> NoMsg]
    /\ timeout = [p \in Procs |-> NoTimeout]
    /\ elapsed = [p \in Procs |-> 0]
    /\ user = [p \in Procs |-> NoUser]
    /\ raAll = [p \in Procs |-> {}]
    /\ raLeft = [p \in Procs |-> {}]
    /\ res = [p \in Procs |-> NoRes]
    /\ rfail = [p \in Procs |-> FALSE]
    /\ live = [p \in Procs |-> 0]

SpecRace == InitRace /\ [][Steps]_vars

\* explicit timeouts of lock(), in ticks
Timeouts == {NoTimeout, 0, 1, 3}

\* p1 takes and releases resource a under two user names, p2 waits for it
NextWait ==
    \/ \E u \in {NoUser, "bob"} : LockCall("p1", <<"a">>, u, NoTimeout)
    \/ Release("p1", <<"a">>)
    \/ \E to \in Timeouts : LockCall("p2", <<"a">>, NoUser, to)
    \/ \E p \in Procs : ReleaseDelete(p)
    \/ Steps

SpecWait == Init /\ [][NextWait]_vars

\* the answer sections of the discovery runs: 1 to MaxAnswers SRV records
\* (resolver.query raises NoAnswer for an empty one)
SeqsUpTo(S, n) == UNION {[1..m -> S] : m \in 1..n}

HostA == <<97>>
HostB == <<98>>
HostC == <<99>>
Dotted(h) == h \o <<46>>

AnswerRecords ==
    {[target |-> Dotted(h), port |-> 2380, priority |-> pw[1], weight |-> pw[2]] :
        h \in {HostA, HostB, HostC}, pw \in {<<1, 5>>, <<1, 10>>, <<2, 1>>}}

\* an additional section that has only an AAAA record for host b
AdditionalNoA ==
    <<[name |-> Dotted(HostB), items |-> <<[rdtype |-> "AAAA", address |-> <<58, 58>>]>>]>>

Additionals ==
    { << >>, AdditionalNoA,
      <<[name |-> Dotted(HostA),
         items |-> <<[rdtype |-> "A", address |-> <<50>>],
                     [rdtype |-> "AAAA", address |-> <<58, 58>>],
                     [rdtype |-> "A", address |-> <<49>>]>>]>> }

InitDiscover ==
    /\ InitLock
    /\ dns \in [error : {"none", "NXDOMAIN", "Timeout"},
                answer : SeqsUpTo(AnswerRecords, MaxAnswers),
                additional : Additionals]
    /\ qpc = "call"
    /\ qres = NoQuery
    /\ down = {}
    /\ cpc = "idle"
    /\ crecs = << >>
    /\ cerr = NoErr
    /\ cres = NoConn

SpecDiscover == InitDiscover /\ [][Query]_vars

\* the spec's example: (p=1,w=5,h=a), (p=1,w=10,h=b), (p=2,w=1,h=c)
ExampleAnswer ==
    <<[target |-> Dotted(HostA), port |-> 2380, priority |-> 1, weight |-> 5],
      [target |-> Dotted(HostB), port |-> 2380, priority |-> 1, weight |-> 10],
      [target |-> Dotted(HostC), port |-> 2380, priority |-> 2, weight |-> 1]>>

InitConnect ==
    /\ InitLock
    /\ dns \in [error : {"none", "NXDOMAIN"},
                answer : SeqsUpTo({ExampleAnswer[i] : i \in 1..3}, MaxAnswers),
                additional : {<< >>, AdditionalNoA}]
    /\ qpc = "idle"
    /\ qres = NoQuery
    /\ down \in SUBSET {HostA, HostB, HostC}
    /\ cpc = "call"
    /\ crecs = << >>
    /\ cerr = NoErr
    /\ cres = NoConn

NextConnect == ConnectQuery \/ ConnectTry

SpecConnect == InitConnect /\ [][NextConnect]_vars

\* ------------------------------------------------------------ properties
\* release_all() of p has been called and has returned
ReleaseAllReturned(p) == stop[p] /\ (raAll[p] = {} \/ pc[p] = "done")

\* this step is a refresh call (line 189) of p's keep-alive thread
RefreshCall(p) == kt[p] = "cycle" /\ ksnap'[p] # ksnap[p]

\* ---- discovery and connect
\* r1 may stand before r2: priority ascending, then weight descending, then
\* host ascending
C9_InOrder(r1, r2) ==
    \/ r1.priority < r2.priority
    \/ r1.priority = r2.priority /\ r1.weight > r2.weight
    \/ r1.priority = r2.priority /\ r1.weight = r2.weight
       /\ (r1.host = r2.host \/ StrLess(r1.host, r2.host))

C9_Count(seq, r) == Cardinality({i \in DOMAIN seq : seq[i] = r})

\* C9: query_etcd_server returns the endpoints of the answer, each as often
\* as the answer gives it, in the order priority ascending, weight
\* descending, host ascending; the spec's example gives [b, a, c].
C9_DiscoveryOrdering ==
    (qpc = "done" /\ dns.error = "none") =>
        LET eps == BuildResultSet(dns.answer, BuildResourceToAddressMap(dns.additional))
            out == qres.recs IN
        /\ qres.exc = "none"
        /\ Len(out) = Len(eps)
        /\ \A i \in DOMAIN eps : C9_Count(out, eps[i]) = C9_Count(eps, eps[i])
        /\ \A i, j \in DOMAIN out : i < j => C9_InOrder(out[i], out[j])
        /\ (dns.answer = ExampleAnswer /\ dns.additional = << >>)
           => [i \in DOMAIN out |-> out[i].host] = <<HostB, HostA, HostC>>

C9_Witness ==
    /\ qpc = "done"
    /\ dns.error = "none"
    /\ dns.answer = ExampleAnswer
    /\ dns.additional = << >>
    /\ [i \in DOMAIN qres.recs |-> qres.recs[i].host] = <<HostB, HostA, HostC>>

\* the error connect_to_etcd ends with when no discovered endpoint accepts
\* the connection
C10_StoreUnavailable(r) == r.kind = "raise" /\ r.exc.cls = ClientError(<< >>).cls

\* C10 (as claimed): the client of the first endpoint, in sorted order, that
\* accepts the connection, with no later endpoint tried; if all refuse, the
\* last connection error; with no endpoint at all, an error of that kind.
C10_ConnectPolicy ==
    (cpc = "done" /\ dns.error = "none") =>
        LET eps == QueryEtcdServer(dns).recs
            up == {i \in DOMAIN eps : eps[i].host \notin down} IN
        IF up # {}
        THEN LET first == CHOOSE i \in up : \A j \in up : i <= j IN
             /\ cres.kind = "client"
             /\ cres.host = eps[first].host
             /\ crecs = SubSeq(eps, first + 1, Len(eps))
        ELSE /\ C10_StoreUnavailable(cres)
             /\ eps # << >> => cres.exc = ClientError(eps[Len(eps)].host)

\* C1 (as claimed): two lock("a") calls racing on a free resource end with
\* exactly one holder, and the loser's call ends as ResourceLocked.
C1_RaceOneWinnerOneResourceLocked ==
    /\ \A p \in Procs : pc[p] = "done" => res[p].kind \in {"ok", "ResourceLocked"}
    /\ Cardinality({p \in Procs : KeyA \in DOMAIN locks[p]}) <= 1
    /\ (\A p \in Procs : pc[p] = "idle") => \E p \in Procs : KeyA \in DOMAIN locks[p]

\* C2: a lock() of a key that is in the caller's registry ends at once as
\* TooManyLocks, with the store, the registry and the keep-alive untouched.
C2_NoReentry ==
    [][\A p \in Procs :
        (/\ pc[p] = "idle"
         /\ \/ pc'[p] = "l_read"
            \/ pc'[p] = "done" /\ res'[p].op = "lock")
        => LET k == IF pc'[p] = "l_read" THEN key'[p] ELSE res'[p].key IN
           /\ k \in DOMAIN locks[p] =>
                /\ pc'[p] = "done"
                /\ res'[p].kind = "TooManyLocks"
                /\ UNCHANGED <<store, locks, stop, kt, ktimer, ksnap>>
           /\ k \notin DOMAIN locks[p] => pc'[p] = "l_read"]_vars

C2_Witness ==
    \E p \in Procs :
        /\ pc[p] = "done"
        /\ res[p].kind = "TooManyLocks"
        /\ res[p].key \in DOMAIN locks[p]
        /\ res[p].key \in DOMAIN store
        /\ kt[p] # "none"

\* C3: a release() of a key that is not in the caller's registry deletes
\* nothing and changes nothing, and no release() ever raises, also when the
\* record of a held key is already gone.
C3_IdempotentRelease ==
    [][\A p \in Procs :
        /\ (/\ pc[p] = "idle"
            /\ \/ pc'[p] = "r_delete"
               \/ pc'[p] = "done" /\ res'[p].op = "release")
           => LET k == IF pc'[p] = "r_delete" THEN key'[p] ELSE res'[p].key IN
              IF k \in DOMAIN locks[p]
              THEN pc'[p] = "r_delete" /\ k \notin DOMAIN locks'[p]
              ELSE /\ pc'[p] = "done"
                   /\ res'[p].kind = "noop"
                   /\ UNCHANGED <<store, locks, stop, kt, ktimer, ksnap>>
        /\ (pc[p] = "r_delete" /\ pc'[p] = "done")
           => res'[p].kind = "ok" /\ key[p] \notin DOMAIN store']_vars

C3_Witness ==
    \E p \in Procs :
        /\ pc[p] = "done"
        /\ res[p].op = "release"
        /\ res[p].kind = "noop"
        /\ res[p].key \in DOMAIN store
        /\ locks[p] # << >>

\* a release() whose record had already gone from the store
C3_WitnessGone ==
    \E p \in Procs :
        /\ pc[p] = "r_delete"
        /\ raAll[p] = {}
        /\ key[p] \notin DOMAIN store

C5_HeldRecordNeverLapses ==
    \A p \in Procs : \A k \in DOMAIN locks[p] :
        ~rfail[p] => k \in DOMAIN store

\* C6 (as claimed): once release_all() has returned, the keep-alive thread
\* makes no refresh call.
C6_NoRefreshAfterReleaseAll ==
    [][\A p \in Procs : ReleaseAllReturned(p) => ~RefreshCall(p)]_vars

\* C7: when release_all() returns, the registry is empty and the store has
\* no record of this process left for any key the call began with.
C7_ReleaseAllReleasesAll ==
    \A p \in Procs :
        (pc[p] = "done" /\ res[p].op = "release_all" /\ res[p].kind = "ok")
        => /\ locks[p] = << >>
           /\ \A k \in raAll[p] : k \in DOMAIN store => store[k].creator # p

C7_Witness ==
    \E p \in Procs :
        /\ pc[p] = "done"
        /\ res[p].op = "release_all"
        /\ Cardinality(raAll[p]) = 2
        /\ \E k \in raAll[p] : k \in DOMAIN store

\* C8 (as claimed): a create that finds the record made by another process
\* ends the call as ResourceLocked with the key and the winner's identity.
C8_LostRaceIsResourceLocked ==
    [][\A p \in Procs :
        (pc[p] = "l_create" /\ pc'[p] # "l_create" /\ key[p] \in DOMAIN store)
        => /\ pc'[p] = "done"
           /\ res'[p] = Result("lock", "ResourceLocked", key[p],
                               store[key[p]].value)]_vars

\* ---- the keep-alive thread
\* C11: a process never has more than one live keep-alive thread, and a
\* thread is started only by the last step of lock() and only when none is
\* alive.
C11_SingleKeepalive ==
    [][\A p \in Procs :
        /\ live'[p] <= 1
        /\ live'[p] > live[p] => (live[p] = 0 /\ pc[p] = "l_start")]_vars

\* a second lock() has returned while the thread of the first one is alive
C11_Witness ==
    \E p \in Procs :
        /\ pc[p] = "done"
        /\ res[p].kind = "ok"
        /\ Cardinality(DOMAIN locks[p]) = 2
        /\ kt[p] \in {"wait", "woke", "cycle"}
        /\ live[p] = 1

\* p's keep-alive loop is running and will refresh at its next wake-up
KeepaliveRunning(p) == kt[p] \in {"wait", "woke", "cycle"} /\ ~stop[p]

\* C12 (as claimed): between the calls of a process, a non-empty registry
\* has a running keep-alive loop, and with an empty registry the loop has
\* ended or is in no refresh cycle.
C12_KeepaliveFollowsRegistry ==
    \A p \in Procs :
        pc[p] = "idle" =>
            /\ locks[p] # << >> => KeepaliveRunning(p)
            /\ locks[p] = << >> => (kt[p] = "cycle" => ksnap[p] = {})

\* this step is a refresh call (line 189) of p's thread that raises
RefreshFails(p) == kt[p] = "cycle" /\ kt'[p] = "dead"

\* the keys of the running cycle whose record has vanished from the store
Vanished(p) == ksnap[p] \ DOMAIN store

\* C13 (as claimed): a refresh that fails because the record of a registered
\* key has vanished takes that key out of the registry.
C13_LostLockDropped ==
    [][\A p \in Procs :
        (RefreshFails(p) /\ Vanished(p) \subseteq DOMAIN locks[p])
        => \E k \in Vanished(p) : k \notin DOMAIN locks'[p]]_vars

\* C14 (as claimed): a refresh that raises a store error does not end the
\* keep-alive thread; the cycle goes on or the thread waits for the next one.
C14_KeepaliveSurvivesErrors ==
    [][\A p \in Procs :
        (kt[p] = "cycle" /\ Vanished(p) # {})
        => kt'[p] \in {"cycle", "wait"}]_vars

\* ---- waiting, releasing, failing
\* a poll of the wait loop that finds the record gone leaves the loop for
\* the create, and a create on a free key ends as (key, holder) with the key
\* in the registry
C15_PollThenCreate(p) ==
    /\ (pc[p] = "l_loop" /\ pc'[p] # "l_loop" /\ elapsed[p] < timeout[p]
         /\ key[p] \notin DOMAIN store)
       => pc'[p] = "l_create"
    /\ (pc[p] = "l_create" /\ pc'[p] # "l_create" /\ key[p] \notin DOMAIN store)
       => /\ pc'[p] = "l_start"
          /\ key[p] \in DOMAIN store'
          /\ store'[key[p]].value = GetLockId(p, user[p])
    /\ (pc[p] = "l_start" /\ pc'[p] # "l_start")
       => /\ res'[p] = Result("lock", "ok", key[p], GetLockId(p, user[p]))
          /\ key[p] \in DOMAIN locks'[p]

\* C15 (as claimed): a waiter whose record has gone before the deadline
\* polls once more after its sleep, sees the key free, creates the record
\* and returns (key, holder).
C15_WaitEndsOnRelease ==
    [][\A p \in Procs :
        /\ C15_PollThenCreate(p)
        /\ (pc[p] = "l_sleep" /\ pc'[p] = "l_loop" /\ key[p] \notin DOMAIN store)
           => elapsed'[p] < timeout[p]]_vars

\* C16 (as claimed): the delete of a release() removes only a record that
\* the releasing process has created.
C16_ReleaseDeletesOnlyOwn ==
    [][\A p \in Procs :
        (/\ pc[p] = "r_delete"
         /\ pc'[p] # "r_delete"
         /\ key[p] \in DOMAIN store
         /\ key[p] \notin DOMAIN store')
        => store[key[p]].creator = p]_vars

\* this step ends p's lock() with a raise
C17_LockFails(p) ==
    /\ pc[p] # "done"
    /\ pc'[p] = "done"
    /\ res'[p].op = "lock"
    /\ res'[p].kind # "ok"

C18_HoldersNeverOverlap ==
    [][/\ \A k \in Keys : Cardinality({p \in Procs : k \in DOMAIN locks'[p]}) <= 1
       /\ \A p \in Procs : \A k \in ksnap[p] \ ksnap'[p] :
            (kt[p] = "cycle" /\ ~RefreshFails(p)) => store[k].creator = p]_vars

\* C19 (as claimed): a key locked after a release_all() of the same process
\* has a live keep-alive thread and keeps its record, as long as no refresh
\* has failed.
C19_KeptAliveAfterReleaseAll ==
    \A p \in Procs :
        (/\ stop[p]
         /\ raAll[p] = {}
         /\ pc[p] = "idle"
         /\ ~rfail[p])
        => \A k \in DOMAIN locks[p] :
             /\ kt[p] \in {"wait", "woke", "cycle"}
             /\ k \in DOMAIN store

\* C20 (as claimed): in a process that has never called release_all(), the
\* release of one key leaves the keep-alive thread alive and the records of
\* the keys still held in the store.
C20_ReleaseSparesOthers ==
    \A p \in Procs :
        (~stop[p] /\ pc[p] \in {"idle", "done"})
        => \A k \in DOMAIN locks[p] :
             /\ kt[p] # "dead"
             /\ k \in DOMAIN store

=============================================================================
